---- MODULE Spec2Model ----
(***************************************************************************)
(* Model of service/filecleaner.py (class FileCleaner): the age and        *)
(* extension policy, the two deletion primitives, the traversal of one     *)
(* root (clean_directory and _clean_directory_recursive) and the loop over *)
(* the configured roots (clean_all).                                       *)
(*                                                                         *)
(* Strings that the code takes apart (file names, extensions) are          *)
(* sequences of one-character strings; path strings of roots are atomic.   *)
(* Time is counted in hours, the unit of file_cleanup_hour.                *)
(***************************************************************************)
EXTENDS Integers, Sequences, FiniteSets, TLC

VARIABLES
    target_dirs,        \* self.target_dirs: sequence of root path strings
    target_extensions,  \* self.target_extensions: sequence of extensions
    file_cleanup_hour,  \* self.file_cleanup_hour
    app_start_time,     \* self.app_start_time
    exists,             \* the file system: the nodes that exist
    meta,               \* the file system: name and st_mtime of each file
    faults,             \* the file system: the OS calls that raise OSError
    pc,                 \* position of clean_all
    idx,                \* clean_all: 1-based position in target_dirs
    results,            \* clean_all: the dict 'results'
    stack,              \* call stack of clean_directory / _clean_directory_recursive
    runs,               \* history: one record per finished clean_directory call
    before,             \* history: the file system when clean_directory was called
    log,                \* history: outcomes of the entries of the current traversal
    ret,                \* value returned by a direct call of _should_delete_file
    totals,             \* print_summary: the five total_* locals
    external,           \* number of removals done by another process
    raw                 \* the configuration file read by _load_settings

vars == <<target_dirs, target_extensions, file_cleanup_hour, app_start_time,
          exists, meta, faults, pc, idx, results, stack, runs, before,
          log, ret, totals, external, raw>>

\* what only print_summary, another process and the configuration file set
rest == <<totals, external, raw>>

config == <<target_dirs, target_extensions, file_cleanup_hour, app_start_time>>

----------------------------------------------------------------------------
(* Bounds of the model *)

MaxRoots == 2       \* longest configured list of roots
MaxFaults == 1      \* most OS calls that fail in one file system
StartTime == 10     \* the hour at which the FileCleaner is constructed

None == "none"

----------------------------------------------------------------------------
(* The file system the traversal works on:                                 *)
(*     A/a1     A/d1/d2/f2     F (a regular file)     X (does not exist)   *)

Root == "A"
TreeFiles == {"a1", "f2"}
TreeDirs == {"d1", "d2"}
Dirs == {Root} \cup TreeDirs
Files == TreeFiles \cup {"F"}
Nodes == Dirs \cup Files

Parent == [n \in TreeFiles \cup TreeDirs |->
             CASE n = "a1" -> "A"
               [] n = "d1" -> "A"
               [] n = "d2" -> "d1"
               [] n = "f2" -> "d2"]

\* Path(directory): the node a root path string denotes
RootStrings == {"A", "F", "X"}
PathOf(directory) ==
    CASE directory = "A" -> Root
      [] directory = "A/d1" -> "d1"
      [] directory = "F" -> "F"
      [] OTHER -> "X"

\* directory.iterdir(): the entries of a directory
Children(d, ex) == {n \in ex \cap DOMAIN Parent : Parent[n] = d}

RECURSIVE Subtree(_, _)
Subtree(d, ex) ==
    {d} \cup UNION {Subtree(c, ex) : c \in Children(d, ex)}

\* item.is_file() and item.is_dir()
IsFile(n) == n \in exists /\ n \in Files
IsDir(n) == n \in exists /\ n \in Dirs

\* the OS calls that can raise OSError
FaultSites ==
    (TreeFiles \X {"stat", "unlink"}) \cup (TreeDirs \X {"list", "rm"})
        \cup {<<Root, "list">>}

----------------------------------------------------------------------------
(* Strings *)

Star == <<"*">>
Pdf == <<"p", "d", "f">>
Txt == <<"t", "x", "t">>

LowerChar(c) ==
    CASE c = "P" -> "p"
      [] c = "D" -> "d"
      [] c = "F" -> "f"
      [] c = "A" -> "a"
      [] OTHER -> c

\* str.lower()
Lower(s) == [k \in 1..Len(s) |-> LowerChar(s[k])]

\* str.lstrip('.')
RECURSIVE LStripDot(_)
LStripDot(s) ==
    IF s # <<>> /\ Head(s) = "." THEN LStripDot(Tail(s)) ELSE s

\* str.rfind('.'), 1-based, 0 when there is no dot
RFindDot(s) ==
    LET dots == {k \in 1..Len(s) : s[k] = "."}
    IN  IF dots = {} THEN 0 ELSE CHOOSE k \in dots : \A j \in dots : j <= k

\* PurePath.suffix of a file name
Suffix(name) ==
    LET i == RFindDot(name)
    IN  IF 1 < i /\ i < Len(name) THEN SubSeq(name, i, Len(name)) ELSE <<>>

\* variant: the suffix is compared as written, without lower()
Extension_cased(name) == LStripDot(Suffix(name))

\* file_path.suffix.lower().lstrip('.')
Extension(name) == LStripDot(Lower(Suffix(name)))

InSeq(x, s) == \E k \in 1..Len(s) : s[k] = x

----------------------------------------------------------------------------
(* Age policy and selection policy *)

IsWildcard == InSeq(Star, target_extensions)

\* file_path.stat() raises OSError
StatFails(file_path) ==
    file_path \notin exists \/ <<file_path, "stat">> \in faults

cutoff_time == app_start_time - file_cleanup_hour

\* variant: the comparison written with <= instead of <
_is_file_old_enough_le(file_path) ==
    IF StatFails(file_path)
    THEN FALSE
    ELSE meta[file_path].mtime <= cutoff_time

\* variant: the except branch returns True
_is_file_old_enough_open(file_path) ==
    IF StatFails(file_path)
    THEN TRUE
    ELSE meta[file_path].mtime < cutoff_time

_is_file_old_enough(file_path) ==
    IF StatFails(file_path)
    THEN FALSE
    ELSE meta[file_path].mtime < cutoff_time

extension_match(file_path) ==
    IF IsWildcard
    THEN TRUE
    ELSE InSeq(Extension(meta[file_path].name), target_extensions)

\* variant: the extension is not compared with the filter
_should_delete_file_anyext(file_path) == _is_file_old_enough(file_path)

\* variant: the wildcard branch returns True without the age check
_should_delete_file_noage(file_path) ==
    IF IsWildcard
    THEN TRUE
    ELSE extension_match(file_path) /\ _is_file_old_enough(file_path)

_should_delete_file(file_path) ==
    IF ~extension_match(file_path)
    THEN FALSE
    ELSE _is_file_old_enough(file_path)

----------------------------------------------------------------------------
(* Deletion executor.  Each primitive yields the truth value it returns    *)
(* and the file system it leaves.                                          *)

\* variant: unlink(missing_ok=True), a missing file is no error
UnlinkFails_missing_ok(file_path) ==
    /\ file_path \in exists
    /\ <<file_path, "unlink">> \in faults

\* file_path.unlink() raises OSError
UnlinkFails(file_path) ==
    file_path \notin exists \/ <<file_path, "unlink">> \in faults

_delete_file(file_path) ==
    IF UnlinkFails(file_path)
    THEN [ok |-> FALSE, ex |-> exists]
    ELSE [ok |-> TRUE, ex |-> exists \ {file_path}]

\* shutil.rmtree(dir_path): removes the entries bottom-up and raises at the
\* first OS call that fails, leaving what it had not reached
RECURSIVE Rmtree(_, _), RmtreeEntries(_, _)
Rmtree(d, ex) ==
    IF d \notin ex \/ <<d, "list">> \in faults
    THEN [ok |-> FALSE, ex |-> ex]
    ELSE LET r == RmtreeEntries(Children(d, ex), ex)
         IN  IF ~r.ok THEN r
             ELSE IF <<d, "rm">> \in faults
                  THEN [ok |-> FALSE, ex |-> r.ex]
                  ELSE [ok |-> TRUE, ex |-> r.ex \ {d}]
RmtreeEntries(entries, ex) ==
    IF entries = {}
    THEN [ok |-> TRUE, ex |-> ex]
    ELSE LET e == CHOOSE x \in entries : TRUE
             r == IF e \in Dirs
                  THEN Rmtree(e, ex)
                  ELSE IF <<e, "unlink">> \in faults
                       THEN [ok |-> FALSE, ex |-> ex]
                       ELSE [ok |-> TRUE, ex |-> ex \ {e}]
         IN  IF ~r.ok THEN r ELSE RmtreeEntries(entries \ {e}, r.ex)

_delete_directory(dir_path) == Rmtree(dir_path, exists)

----------------------------------------------------------------------------
(* Results *)

Counters ==
    {"deleted_files", "deleted_dirs", "failed_files", "failed_dirs",
     "skipped_files"}

ZeroResult == [c \in Counters |-> 0]

\* result[c] += 1
Incr(result, c) == [result EXCEPT ![c] = @ + 1]

\* variant: the line adding skipped_files is missing
AddResult_lossy(result, sub_result) ==
    [c \in Counters |->
        IF c = "skipped_files" THEN result[c] ELSE result[c] + sub_result[c]]

\* the five result[c] += sub_result[c] of a returning recursive call
AddResult(result, sub_result) ==
    [c \in Counters |-> result[c] + sub_result[c]]

\* results[directory] = result
DictSet(d, k, v) ==
    [x \in DOMAIN d \cup {k} |-> IF x = k THEN v ELSE d[x]]

----------------------------------------------------------------------------
(* Call stack.  A frame is one activation of clean_directory or of         *)
(* _clean_directory_recursive; step is the position inside it.             *)

NewFrame(fn, path, dir) ==
    [fn |-> fn, path |-> path, dir |-> dir, items |-> {}, cur |-> None,
     step |-> IF fn = "clean_directory" THEN "check" ELSE "list",
     result |-> ZeroResult]

Top == stack[Len(stack)]
Running == pc = "call" /\ stack # <<>>
SetTop(f) == [stack EXCEPT ![Len(stack)] = f]
At(fn, step) == Running /\ Top.fn = fn /\ Top.step = step
AtStep(step) == Running /\ Top.step = step

Note(n, ev) == Append(log, [node |-> n, ev |-> ev])

\* directory.iterdir() raises OSError
ListFails(d) == ~IsDir(d) \/ <<d, "list">> \in faults

\* an OSError nobody catches leaves clean_directory and clean_all
Raise ==
    /\ pc' = "raised"
    /\ stack' = <<>>

----------------------------------------------------------------------------
(* Initial states *)

CleanupHour == 2    \* file_cleanup_hour of the traversals

APdf == <<"a", ".", "p", "d", "f">>
ATxt == <<"a", ".", "t", "x", "t">>

\* one hour before the cutoff, at the cutoff, one hour after it
MTimes == {StartTime - CleanupHour + d : d \in {-1, 0, 1}}
NoMeta == [name |-> APdf, mtime |-> StartTime]
\* a file of another extension is older than the cutoff: only its
\* extension can keep it
FileMeta ==
    {m \in [name : {APdf, ATxt}, mtime : MTimes] :
        m.name = ATxt => m.mtime < StartTime - CleanupHour}

\* a file system is closed under Parent; the root A and the file F exist
FileSystems ==
    {ex \in SUBSET Nodes :
        /\ {Root, "F"} \subseteq ex
        /\ \A n \in ex \cap DOMAIN Parent : Parent[n] \in ex}

RootLists == UNION {[1..n -> RootStrings] : n \in 0..MaxRoots}

InitProgram ==
    /\ pc = "start"
    /\ idx = 1
    /\ results = <<>>
    /\ stack = <<>>
    /\ runs = <<>>
    /\ before = {}
    /\ log = <<>>
    /\ ret = None
    /\ totals = ZeroResult
    /\ external = 0
    /\ raw = None

\* the state after FileCleaner(config), over every file system
Init ==
    /\ target_dirs \in RootLists
    /\ target_extensions \in {<<Star>>, <<Pdf>>}
    /\ file_cleanup_hour = CleanupHour
    /\ app_start_time = StartTime
    /\ exists \in FileSystems
    /\ meta \in [TreeFiles -> FileMeta \cup {NoMeta}]
    /\ \A f \in TreeFiles : meta[f] = NoMeta <=> f \notin exists
    /\ faults \in {fs \in SUBSET FaultSites :
                      /\ Cardinality(fs) <= MaxFaults
                      /\ \A site \in fs : site[1] \in exists}
    /\ InitProgram

----------------------------------------------------------------------------
(* clean_all *)

\* if not self.target_dirs: return results
CleanAllEmpty ==
    /\ pc = "start"
    /\ target_dirs = <<>>
    /\ pc' = "done"
    /\ UNCHANGED <<config, rest, exists, meta, faults, idx, results, stack, runs, before,
                   log, ret>>

\* for directory in self.target_dirs: ... self.clean_directory(directory)
CleanAllCall ==
    /\ pc \in {"start", "loop"}
    /\ idx <= Len(target_dirs)
    /\ pc' = "call"
    /\ stack' = <<NewFrame("clean_directory", target_dirs[idx],
                           PathOf(target_dirs[idx]))>>
    /\ log' = <<>>
    /\ before' = exists
    /\ UNCHANGED <<config, rest, exists, meta, faults, idx, results, runs, ret>>

\* return results, after the last root
CleanAllReturn ==
    /\ pc = "loop"
    /\ idx > Len(target_dirs)
    /\ pc' = "done"
    /\ UNCHANGED <<config, rest, exists, meta, faults, idx, results, stack, runs, before,
                   log, ret>>

\* total += result[c] for each entry of results.items()
RECURSIVE SumItems(_, _, _)
SumItems(d, keys, c) ==
    IF keys = {} THEN 0
    ELSE LET k == CHOOSE x \in keys : TRUE
         IN  d[k][c] + SumItems(d, keys \ {k}, c)

\* print_summary(results) on the report clean_all returned
print_summary ==
    /\ pc = "done"
    /\ pc' = "summary"
    /\ totals' = [c \in Counters |-> SumItems(results, DOMAIN results, c)]
    /\ UNCHANGED <<config, exists, meta, faults, idx, results, stack, runs,
                   before, log, ret, external, raw>>

----------------------------------------------------------------------------
(* clean_directory *)

\* variant: the two early returns are missing
CheckRoot_nocheck ==
    /\ At("clean_directory", "check")
    /\ stack' = SetTop([Top EXCEPT !.step = "list"])
    /\ UNCHANGED <<config, rest, exists, meta, faults, pc, idx, results, runs,
                   before, log, ret>>

\* if not target_path.exists(): return result
\* if not target_path.is_dir(): return result
CheckRoot ==
    /\ At("clean_directory", "check")
    /\ stack' = SetTop([Top EXCEPT
                   !.step = IF IsDir(Top.dir) THEN "list" ELSE "return"])
    /\ UNCHANGED <<config, rest, exists, meta, faults, pc, idx, results, runs, before,
                   log, ret>>

\* items = list(target_path.iterdir())
ListRoot ==
    /\ At("clean_directory", "list")
    /\ IF ListFails(Top.dir)
       THEN Raise
       ELSE /\ stack' = SetTop([Top EXCEPT
                           !.items = Children(Top.dir, exists),
                           !.step = "loop"])
            /\ pc' = pc
    /\ UNCHANGED <<config, rest, exists, meta, faults, idx, results, runs, before, log, ret>>

\* variant: the value _delete_directory returns is not looked at
DeleteDirectory_unchecked ==
    /\ At("clean_directory", "rmtree")
    /\ LET r == _delete_directory(Top.cur)
       IN  /\ exists' = r.ex
           /\ stack' = SetTop([Top EXCEPT
                   !.result = Incr(@, "deleted_dirs"),
                   !.step = "loop"])
           /\ log' = Note(Top.cur, "deleted_dir")
    /\ UNCHANGED <<config, rest, meta, faults, pc, idx, results, runs, before, ret>>

\* the wildcard branch: if self._delete_directory(item): ... else: ...
DeleteDirectory ==
    /\ At("clean_directory", "rmtree")
    /\ LET r == _delete_directory(Top.cur)
       IN  /\ exists' = r.ex
           /\ stack' = SetTop([Top EXCEPT
                   !.result = Incr(@, IF r.ok THEN "deleted_dirs"
                                             ELSE "failed_dirs"),
                   !.step = "loop"])
           /\ log' = Note(Top.cur, IF r.ok THEN "deleted_dir"
                                           ELSE "failed_dir")
    /\ UNCHANGED <<config, rest, meta, faults, pc, idx, results, runs, before, ret>>

\* variant: every result is stored under the first configured string
ReturnCleanDirectory_key ==
    /\ At("clean_directory", "return")
    /\ results' = DictSet(results, target_dirs[1], Top.result)
    /\ runs' = Append(runs, [path |-> Top.path, result |-> Top.result,
                             before |-> before, after |-> exists])
    /\ stack' = <<>>
    /\ idx' = idx + 1
    /\ pc' = "loop"
    /\ UNCHANGED <<config, rest, exists, meta, faults, before, log, ret>>

\* variant: clean_directory removes the root too when it is left empty
ReturnCleanDirectory_prune ==
    /\ At("clean_directory", "return")
    /\ LET emptied == IsDir(Top.dir) /\ Children(Top.dir, exists) = {}
           result == IF emptied THEN Incr(Top.result, "deleted_dirs")
                                ELSE Top.result
       IN  /\ exists' = IF emptied THEN exists \ {Top.dir} ELSE exists
           /\ results' = DictSet(results, Top.path, result)
           /\ runs' = Append(runs, [path |-> Top.path, result |-> result,
                                    before |-> before, after |-> exists'])
    /\ stack' = <<>>
    /\ idx' = idx + 1
    /\ pc' = "loop"
    /\ UNCHANGED <<config, rest, meta, faults, before, log, ret>>

\* return result, and results[directory] = ... in clean_all
ReturnCleanDirectory ==
    /\ At("clean_directory", "return")
    /\ results' = DictSet(results, Top.path, Top.result)
    /\ runs' = Append(runs, [path |-> Top.path, result |-> Top.result,
                             before |-> before, after |-> exists])
    /\ stack' = <<>>
    /\ idx' = idx + 1
    /\ pc' = "loop"
    /\ UNCHANGED <<config, rest, exists, meta, faults, before, log, ret>>

----------------------------------------------------------------------------
(* The loop over the entries, written twice in the code: in                *)
(* clean_directory (fn = "clean_directory") and in                         *)
(* _clean_directory_recursive (fn = "recursive").                          *)

\* variant: _clean_directory_recursive tests the emptiness of the directory
\* before it has processed the entries
NextItemIn_preorder(fn) ==
    /\ At(fn, "loop")
    /\ IF Top.items = {} \/ fn = "recursive"
       THEN stack' = SetTop([Top EXCEPT
                        !.cur = None,
                        !.step = IF fn = "clean_directory" THEN "return"
                                                           ELSE "prune"])
       ELSE \E item \in Top.items :
                stack' = SetTop([Top EXCEPT
                             !.items = @ \ {item},
                             !.cur = item,
                             !.step = "type"])
    /\ UNCHANGED <<config, rest, exists, meta, faults, pc, idx, results, runs, before,
                   log, ret>>

\* for item in items: the next entry in listing order, which is any order
NextItemIn(fn) ==
    /\ At(fn, "loop")
    /\ IF Top.items = {}
       THEN stack' = SetTop([Top EXCEPT
                        !.cur = None,
                        !.step = IF fn = "clean_directory" THEN "return"
                                                           ELSE "prune"])
       ELSE \E item \in Top.items :
                stack' = SetTop([Top EXCEPT
                             !.items = @ \ {item},
                             !.cur = item,
                             !.step = "type"])
    /\ UNCHANGED <<config, rest, exists, meta, faults, pc, idx, results, runs, before,
                   log, ret>>

\* variant: clean_directory recurses into a directory in wildcard mode too
TypeCheckIn_recurse(fn) ==
    /\ At(fn, "type")
    /\ IF IsFile(Top.cur)
       THEN stack' = SetTop([Top EXCEPT !.step = "should"])
       ELSE IF IsDir(Top.cur)
            THEN stack' = Append(SetTop([Top EXCEPT !.step = "wait"]),
                                 NewFrame("recursive", None, Top.cur))
            ELSE stack' = SetTop([Top EXCEPT !.step = "loop"])
    /\ UNCHANGED <<config, rest, exists, meta, faults, pc, idx, results, runs,
                   before, log, ret>>

\* if item.is_file(): ... elif item.is_dir(): ...
TypeCheckIn(fn) ==
    /\ At(fn, "type")
    /\ IF IsFile(Top.cur)
       THEN stack' = SetTop([Top EXCEPT !.step = "should"])
       ELSE IF IsDir(Top.cur)
            THEN IF fn = "clean_directory" /\ IsWildcard
                 THEN stack' = SetTop([Top EXCEPT !.step = "rmtree"])
                 ELSE stack' = Append(SetTop([Top EXCEPT !.step = "wait"]),
                                      NewFrame("recursive", None, Top.cur))
            ELSE stack' = SetTop([Top EXCEPT !.step = "loop"])
    /\ UNCHANGED <<config, rest, exists, meta, faults, pc, idx, results, runs, before,
                   log, ret>>

\* variant: a file that is not to be deleted is not counted
ShouldDeleteIn_noskip(fn) ==
    /\ At(fn, "should")
    /\ stack' = SetTop([Top EXCEPT
           !.step = IF _should_delete_file(Top.cur) THEN "unlink"
                                                    ELSE "loop"])
    /\ UNCHANGED <<config, rest, exists, meta, faults, pc, idx, results, runs,
                   before, log, ret>>

\* variant: the age check reads the clock again instead of app_start_time
ShouldDeleteIn_clock(fn) ==
    /\ At(fn, "should")
    /\ app_start_time' = app_start_time + 1
    /\ IF _should_delete_file(Top.cur)
       THEN /\ stack' = SetTop([Top EXCEPT !.step = "unlink"])
            /\ log' = log
       ELSE /\ stack' = SetTop([Top EXCEPT
                            !.result = Incr(@, "skipped_files"),
                            !.step = "loop"])
            /\ log' = Note(Top.cur, "skipped")
    /\ UNCHANGED <<target_dirs, target_extensions, file_cleanup_hour, rest,
                   exists, meta, faults, pc, idx, results, runs, before, ret>>

\* if self._should_delete_file(item): ... else: result['skipped_files'] += 1
ShouldDeleteIn(fn) ==
    /\ At(fn, "should")
    /\ IF _should_delete_file(Top.cur)
       THEN /\ stack' = SetTop([Top EXCEPT !.step = "unlink"])
            /\ log' = log
       ELSE /\ stack' = SetTop([Top EXCEPT
                            !.result = Incr(@, "skipped_files"),
                            !.step = "loop"])
            /\ log' = Note(Top.cur, "skipped")
    /\ UNCHANGED <<config, rest, exists, meta, faults, pc, idx, results, runs, before, ret>>

\* if self._delete_file(item): result['deleted_files'] += 1
\* else: result['failed_files'] += 1
DeleteFileIn(fn) ==
    /\ At(fn, "unlink")
    /\ LET r == _delete_file(Top.cur)
       IN  /\ exists' = r.ex
           /\ stack' = SetTop([Top EXCEPT
                   !.result = Incr(@, IF r.ok THEN "deleted_files"
                                             ELSE "failed_files"),
                   !.step = "loop"])
           /\ log' = Note(Top.cur, IF r.ok THEN "deleted" ELSE "failed")
    /\ UNCHANGED <<config, rest, meta, faults, pc, idx, results, runs, before, ret>>

RootNextItem == NextItemIn("clean_directory")
RootTypeCheck == TypeCheckIn("clean_directory")
RootShouldDelete == ShouldDeleteIn("clean_directory")
RootDeleteFile == DeleteFileIn("clean_directory")

SubNextItem == NextItemIn("recursive")
SubTypeCheck == TypeCheckIn("recursive")
SubShouldDelete == ShouldDeleteIn("recursive")
SubDeleteFile == DeleteFileIn("recursive")

----------------------------------------------------------------------------
(* _clean_directory_recursive *)

\* for item in directory.iterdir(): the listing, outside any try
ListDir ==
    /\ At("recursive", "list")
    /\ IF ListFails(Top.dir)
       THEN Raise
       ELSE /\ stack' = SetTop([Top EXCEPT
                           !.items = Children(Top.dir, exists),
                           !.step = "loop"])
            /\ pc' = pc
    /\ UNCHANGED <<config, rest, exists, meta, faults, idx, results, runs, before, log, ret>>

\* not any(directory.iterdir())
IsEmptyDir(d) == Children(d, exists) = {}

\* directory.rmdir() raises OSError
RmdirFails(d) == Children(d, exists) # {} \/ <<d, "rm">> \in faults

\* variant: the directory is removed with its contents, without the
\* emptiness check
Prune_rmtree ==
    /\ At("recursive", "prune")
    /\ LET r == Rmtree(Top.dir, exists)
       IN  /\ exists' = r.ex
           /\ stack' = SetTop([Top EXCEPT
                   !.result = IF r.ok THEN Incr(@, "deleted_dirs") ELSE @,
                   !.step = "return"])
           /\ log' = Note(Top.dir, IF r.ok THEN "pruned" ELSE "oserror")
    /\ UNCHANGED <<config, rest, meta, faults, pc, idx, results, runs, before, ret>>

\* try: if not any(directory.iterdir()): directory.rmdir();
\*      result['deleted_dirs'] += 1
\* except OSError: (a debug message)
Prune ==
    /\ At("recursive", "prune")
    /\ LET d == Top.dir
       IN  IF ListFails(d)
           THEN /\ exists' = exists
                /\ stack' = SetTop([Top EXCEPT !.step = "return"])
                /\ log' = Note(d, "oserror")
           ELSE IF ~IsEmptyDir(d)
           THEN /\ exists' = exists
                /\ stack' = SetTop([Top EXCEPT !.step = "return"])
                /\ log' = Note(d, "kept")
           ELSE IF RmdirFails(d)
           THEN /\ exists' = exists
                /\ stack' = SetTop([Top EXCEPT !.step = "return"])
                /\ log' = Note(d, "oserror")
           ELSE /\ exists' = exists \ {d}
                /\ stack' = SetTop([Top EXCEPT
                               !.result = Incr(@, "deleted_dirs"),
                               !.step = "return"])
                /\ log' = Note(d, "pruned")
    /\ UNCHANGED <<config, rest, meta, faults, pc, idx, results, runs, before, ret>>

\* return result, and the five += of the caller
ReturnRecursive ==
    /\ At("recursive", "return")
    /\ LET caller == stack[Len(stack) - 1]
       IN  stack' = [SubSeq(stack, 1, Len(stack) - 1)
                        EXCEPT ![Len(stack) - 1] =
                            [caller EXCEPT
                                !.result = AddResult(@, Top.result),
                                !.step = "loop"]]
    /\ UNCHANGED <<config, rest, exists, meta, faults, pc, idx, results, runs, before,
                   log, ret>>

----------------------------------------------------------------------------

Next ==
    \/ CleanAllEmpty
    \/ CleanAllCall
    \/ CleanAllReturn
    \/ print_summary
    \/ CheckRoot
    \/ ListRoot
    \/ RootNextItem
    \/ RootTypeCheck
    \/ RootShouldDelete
    \/ RootDeleteFile
    \/ DeleteDirectory
    \/ ReturnCleanDirectory
    \/ ListDir
    \/ SubNextItem
    \/ SubTypeCheck
    \/ SubShouldDelete
    \/ SubDeleteFile
    \/ Prune
    \/ ReturnRecursive

Spec == Init /\ [][Next]_vars

----------------------------------------------------------------------------
(* _load_settings: the constructor reads the configuration file.  An       *)
(* option is a record: whether the file has the key, and its string.       *)

Option(s) == [present |-> TRUE, value |-> s]
Missing == [present |-> FALSE, value |-> <<>>]

\* get_config_value(config, section, key, default)
get_config_value(opt, default) == IF opt.present THEN opt.value ELSE default

\* str.strip()
RECURSIVE LStrip(_), RStrip(_)
LStrip(s) == IF s # <<>> /\ Head(s) = " " THEN LStrip(Tail(s)) ELSE s
RStrip(s) ==
    IF s # <<>> /\ s[Len(s)] = " " THEN RStrip(SubSeq(s, 1, Len(s) - 1)) ELSE s
Strip(s) == LStrip(RStrip(s))

\* str.split(',')
RECURSIVE Split(_)
Split(s) ==
    LET commas == {k \in 1..Len(s) : s[k] = ","}
    IN  IF commas = {} THEN <<s>>
        ELSE LET k == CHOOSE i \in commas : \A j \in commas : i <= j
             IN  <<SubSeq(s, 1, k - 1)>> \o Split(SubSeq(s, k + 1, Len(s)))

Digits == {"0", "1", "2", "3", "4", "5", "6", "7", "8", "9"}
DigitValue(c) ==
    CASE c = "0" -> 0 [] c = "1" -> 1 [] c = "2" -> 2 [] c = "3" -> 3
      [] c = "4" -> 4 [] c = "5" -> 5 [] c = "6" -> 6 [] c = "7" -> 7
      [] c = "8" -> 8 [] c = "9" -> 9

RECURSIVE DecimalValue(_)
DecimalValue(s) ==
    IF s = <<>> THEN 0
    ELSE 10 * DecimalValue(SubSeq(s, 1, Len(s) - 1)) + DigitValue(s[Len(s)])

\* int(s) of a str without underscores: surrounding blanks are dropped, one
\* sign is allowed, the rest is decimal digits; anything else is a ValueError
ParseInt(s) ==
    LET t == Strip(s)
        signed == t # <<>> /\ Head(t) \in {"+", "-"}
        body == IF signed THEN Tail(t) ELSE t
    IN  IF body = <<>> \/ \E k \in 1..Len(body) : body[k] \notin Digits
        THEN [ok |-> FALSE, value |-> 0]
        ELSE [ok |-> TRUE,
              value |-> IF signed /\ Head(t) = "-" THEN 0 - DecimalValue(body)
                                                   ELSE DecimalValue(body)]

\* [ext.strip().lower().lstrip('.') for ext in ... if ext.strip()]
RECURSIVE CleanExtensions(_)
CleanExtensions(parts) ==
    IF parts = <<>> THEN <<>>
    ELSE (IF Strip(Head(parts)) = <<>>
          THEN <<>>
          ELSE <<LStripDot(Lower(Strip(Head(parts))))>>)
         \o CleanExtensions(Tail(parts))

\* [value.strip() for each target_dir* key if value and value.strip()]
RECURSIVE _get_target_directories(_)
_get_target_directories(values) ==
    IF values = <<>> THEN <<>>
    ELSE (IF Strip(Head(values)) = <<>> THEN <<>> ELSE <<Strip(Head(values))>>)
         \o _get_target_directories(Tail(values))

_load_settings ==
    /\ pc = "init"
    /\ target_dirs' = _get_target_directories(raw.dirs)
    /\ LET extensions_str == get_config_value(raw.extensions, Star)
       IN  target_extensions' =
               IF extensions_str = <<>> THEN target_extensions
               ELSE IF Strip(extensions_str) = Star THEN <<Star>>
               ELSE CleanExtensions(Split(Strip(extensions_str)))
    /\ LET cleanup_hour_str == get_config_value(raw.hour, <<"2", "4">>)
           n == ParseInt(IF cleanup_hour_str = <<>> THEN <<"2", "4">>
                                                    ELSE cleanup_hour_str)
       IN  file_cleanup_hour' = IF n.ok THEN n.value ELSE 24
    /\ pc' = "loaded"
    /\ UNCHANGED <<app_start_time, rest, exists, meta, faults, idx, results,
                   stack, runs, before, log, ret>>

HourStrings ==
    {<<>>, <<"2", "4">>, <<"1">>, <<"0">>, <<"-", "5">>, <<"+", "3">>,
     <<" ", "7", " ">>, <<" ">>, <<"a", "b", "c">>, <<"1", ".", "5">>,
     <<"-">>}
ExtensionStrings ==
    {<<>>, Star, <<" ", "*", " ">>, Pdf, <<"P", "D", "F", ",", " ", ".", "t", "x", "t">>,
     <<"p", "d", "f", ",", ",", " ">>, <<".">>, <<"*", ",", "p", "d", "f">>}
DirStrings == {<<"A">>, <<" ", "A", " ">>, <<" ">>, <<>>}

\* the state of __init__ just before it calls _load_settings
InitSettings ==
    /\ raw \in [hour : {Missing} \cup {Option(s) : s \in HourStrings},
                 extensions : {Missing} \cup {Option(s) : s \in ExtensionStrings},
                 dirs : {<<>>} \cup {<<d>> : d \in DirStrings}]
    /\ target_dirs = <<>>
    /\ target_extensions = <<>>
    /\ file_cleanup_hour = 1
    /\ app_start_time = StartTime
    /\ exists = {Root, "F"}
    /\ meta = [f \in TreeFiles |-> NoMeta]
    /\ faults = {}
    /\ pc = "init"
    /\ idx = 1
    /\ results = <<>>
    /\ stack = <<>>
    /\ runs = <<>>
    /\ before = {}
    /\ log = <<>>
    /\ ret = None
    /\ totals = ZeroResult
    /\ external = 0

NextSettings == _load_settings

SpecSettings == InitSettings /\ [][NextSettings]_vars

----------------------------------------------------------------------------
(* One traversal while another process removes files that the traversal   *)
(* has listed.  No OS call fails for any other reason.                     *)

MaxExternal == 1

\* file f was returned by a listing and is not dealt with yet
Listed(f) ==
    \E k \in 1..Len(stack) :
        \/ f \in stack[k].items
        \/ stack[k].cur = f /\ stack[k].step \in {"type", "should", "unlink"}

\* another process removes a listed file
ExternalRemove ==
    /\ Running
    /\ external < MaxExternal
    /\ \E f \in TreeFiles \cap exists :
           /\ Listed(f)
           /\ exists' = exists \ {f}
    /\ external' = external + 1
    /\ UNCHANGED <<config, meta, faults, pc, idx, results, stack, runs, before,
                   log, ret, totals, raw>>

InitRace ==
    /\ target_dirs \in {l \in RootLists : Len(l) <= 1}
    /\ target_extensions \in {<<Star>>, <<Pdf>>}
    /\ file_cleanup_hour = CleanupHour
    /\ app_start_time = StartTime
    /\ exists \in FileSystems
    /\ meta \in [TreeFiles -> FileMeta \cup {NoMeta}]
    /\ \A f \in TreeFiles : meta[f] = NoMeta <=> f \notin exists
    /\ faults = {}
    /\ InitProgram

NextRace ==
    \/ Next
    \/ ExternalRemove

SpecRace == InitRace /\ [][NextRace]_vars

----------------------------------------------------------------------------
(* clean_all over one configured root, which is the directory A, the       *)
(* directory A/d1 below it, a regular file or a path that does not exist.  *)

InitRoot ==
    /\ target_dirs \in {<<>>} \cup {<<r>> : r \in RootStrings \cup {"A/d1"}}
    /\ target_extensions \in {<<Star>>, <<Pdf>>}
    /\ file_cleanup_hour = CleanupHour
    /\ app_start_time = StartTime
    /\ exists \in FileSystems
    /\ meta \in [TreeFiles -> FileMeta \cup {NoMeta}]
    /\ \A f \in TreeFiles : meta[f] = NoMeta <=> f \notin exists
    /\ faults \in {fs \in SUBSET FaultSites :
                      /\ Cardinality(fs) <= MaxFaults
                      /\ \A site \in fs : site[1] \in exists}
    /\ InitProgram

SpecRoot == InitRoot /\ [][Next]_vars

TypeOK ==
    /\ pc \in {"start", "loop", "call", "done", "summary", "raised", "policy",
             "returned", "init", "loaded"}
    /\ idx \in 1..(Len(target_dirs) + 1)
    /\ exists \subseteq Nodes
    /\ DOMAIN results \subseteq RootStrings \cup {"A/d1"}
    /\ \A k \in 1..Len(stack) : \A c \in Counters : stack[k].result[c] >= 0

----------------------------------------------------------------------------
(* _should_delete_file called on its own, over every file, filter list and *)
(* cutoff of the sets below.                                               *)

PolicyNames ==
    {APdf, ATxt,
     <<"A", ".", "P", "D", "F">>,
     <<"a", ".", "b", ".", "p", "d", "f">>,
     <<"a">>,
     <<".", "p", "d", "f">>}
PolicyMTimes == (StartTime - CleanupHour - 1)..(StartTime + 1)
PolicyHours == -1..CleanupHour
\* the last one is what the setting 'pdf,.' loads
PolicyFilters ==
    {<<Star>>, <<Pdf>>, <<Pdf, Txt>>, <<Star, Pdf>>, <<>>, <<Pdf, <<>>>>}

InitPolicy ==
    /\ target_dirs = <<>>
    /\ target_extensions \in PolicyFilters
    /\ file_cleanup_hour \in PolicyHours
    /\ app_start_time = StartTime
    /\ exists \in {{Root, "F", "a1"}, {Root, "F"}}
    /\ meta \in [TreeFiles -> [name : PolicyNames, mtime : PolicyMTimes]]
    /\ meta["f2"] = [name |-> APdf, mtime |-> StartTime]
    /\ faults \in SUBSET {<<"a1", "stat">>}
    /\ pc = "policy"
    /\ idx = 1
    /\ results = <<>>
    /\ stack = <<>>
    /\ runs = <<>>
    /\ before = {}
    /\ log = <<>>
    /\ ret = None
    /\ totals = ZeroResult
    /\ external = 0
    /\ raw = None

CallShouldDelete ==
    /\ pc = "policy"
    /\ ret' = _should_delete_file("a1")
    /\ pc' = "returned"
    /\ UNCHANGED <<config, rest, exists, meta, faults, idx, results, stack, runs, before,
                   log>>

NextPolicy == CallShouldDelete

SpecPolicy == InitPolicy /\ [][NextPolicy]_vars

----------------------------------------------------------------------------
(* Properties *)

\* the entries of a log with a given outcome
Logged(l, ev) == {l[k].node : k \in {j \in 1..Len(l) : l[j].ev = ev}}

\* C1 as stated: for every file, filter list and cutoff, _should_delete_file
\* returns true exactly when the filter holds '*' or the file's normalised
\* extension, and the file's modification time is strictly less than
\* app_start_time minus file_cleanup_hour hours.
C1_AsStated ==
    (pc = "returned" /\ "a1" \in exists) =>
        (ret <=>
            /\ \/ \E k \in 1..Len(target_extensions) :
                      target_extensions[k] = Star
               \/ \E k \in 1..Len(target_extensions) :
                      target_extensions[k] = Extension(meta["a1"].name)
            /\ meta["a1"].mtime < app_start_time - file_cleanup_hour)

\* C1 amended: _should_delete_file returns true exactly when the filter
\* holds '*' or the file's normalised extension, the modification time can
\* be read, and it is strictly less than app_start_time minus
\* file_cleanup_hour hours; a file modified exactly at the cutoff, or whose
\* modification time cannot be read, yields false.
C1_ShouldDelete ==
    pc = "returned" =>
        (ret <=>
            /\ \/ \E k \in 1..Len(target_extensions) :
                      target_extensions[k] = Star
               \/ \E k \in 1..Len(target_extensions) :
                      target_extensions[k] = Extension(meta["a1"].name)
            /\ "a1" \in exists
            /\ <<"a1", "stat">> \notin faults
            /\ meta["a1"].mtime < app_start_time - file_cleanup_hour)

\* a matching, readable file modified exactly at the cutoff was refused
C1_Witness ==
    /\ pc = "returned"
    /\ ret = FALSE
    /\ "a1" \in exists
    /\ faults = {}
    /\ target_extensions = <<Pdf>>
    /\ Extension(meta["a1"].name) = Pdf
    /\ file_cleanup_hour > 0
    /\ meta["a1"].mtime = app_start_time - file_cleanup_hour

\* C2: when the stat of a file fails, _is_file_old_enough returns false
\* without raising, the traversal does not attempt to delete the file, and
\* the file adds one to skipped_files and nothing to deleted_files or
\* failed_files.
C2_StatFailure ==
    [][(AtStep("should") /\ <<Top.cur, "stat">> \in faults) =>
          /\ ~_is_file_old_enough(Top.cur)
          /\ pc' = pc
          /\ Len(stack') = Len(stack)
          /\ Top'.step = "loop"
          /\ exists' = exists
          /\ Top'.result = [Top.result EXCEPT !["skipped_files"] = @ + 1]
      ]_vars

\* a file that matches the filter and is older than the cutoff was skipped
\* because its stat fails, and it is still there when the traversal is over
C2_Witness ==
    /\ pc = "loop"
    /\ Len(runs) = 1
    /\ \E f \in Logged(log, "skipped") :
          /\ <<f, "stat">> \in faults
          /\ extension_match(f)
          /\ meta[f].mtime < cutoff_time
          /\ f \in exists
          /\ runs[1].result["skipped_files"] >= 1
          /\ runs[1].result["failed_files"] = 0
          /\ runs[1].result["deleted_files"] = 0

\* C3: in wildcard mode the traversal never enters a child directory of
\* the root: the directory goes to _delete_directory, and when that
\* succeeds the whole subtree is gone, deleted_dirs has grown by one and no
\* other counter has changed.
C3_WildcardUnit ==
    [][IsWildcard =>
          /\ Len(stack') <= 1
          /\ (At("clean_directory", "type") /\ IsDir(Top.cur)) =>
                 Top'.step = "rmtree"
          /\ (At("clean_directory", "rmtree") /\ Top.cur \notin exists') =>
                 /\ exists' = exists \ Subtree(Top.cur, exists)
                 /\ Top'.result =
                        [Top.result EXCEPT !["deleted_dirs"] = @ + 1]
      ]_vars

\* a directory holding a file newer than the cutoff was removed whole, and
\* the run counted one directory and no file for it
C3_Witness ==
    /\ IsWildcard
    /\ Len(runs) >= 1
    /\ {"d1", "d2", "f2"} \subseteq runs[1].before
    /\ "a1" \notin runs[1].before
    /\ meta["f2"].mtime > cutoff_time
    /\ {"d1", "d2", "f2"} \cap runs[1].after = {}
    /\ runs[1].result = [ZeroResult EXCEPT !["deleted_dirs"] = 1]

\* C4 as stated: in filtered mode a directory below the root is removed
\* if and only if it holds no entry when its own subtree has been
\* processed.
C4_AsStated ==
    [][At("recursive", "prune") =>
          (Top.dir \notin exists' <=> Children(Top.dir, exists) = {})
      ]_vars

\* C4 amended: in filtered mode a directory below the root is removed, and
\* counted in deleted_dirs, if and only if it holds no entry when its own
\* subtree has been processed and its removal succeeds; a directory that
\* still holds an entry, or whose removal fails, is left in place and
\* deleted_dirs is not incremented for it.  No other step of a filtered
\* run removes a directory.
C4_PruneIffEmpty ==
    [][~IsWildcard =>
          /\ At("recursive", "prune") =>
                /\ Top.dir \notin exists' <=>
                       /\ Children(Top.dir, exists) = {}
                       /\ <<Top.dir, "rm">> \notin faults
                /\ Top'.result["deleted_dirs"] = Top.result["deleted_dirs"]
                       + (IF Top.dir \in exists' THEN 0 ELSE 1)
                /\ exists \ exists' \subseteq {Top.dir}
          /\ ~At("recursive", "prune") => (exists \ exists') \cap Dirs = {}
      ]_vars

\* a directory that kept a skipped file newer than the cutoff, and its
\* parent, are still there after the run, which counted no directory
C4_Witness ==
    /\ pc = "loop"
    /\ ~IsWildcard
    /\ Len(runs) = 1
    /\ "f2" \in Logged(log, "skipped")
    /\ meta["f2"].mtime > cutoff_time
    /\ {"d1", "d2"} \subseteq Logged(log, "kept")
    /\ {"d1", "d2", "f2"} \subseteq exists
    /\ runs[1].result["deleted_dirs"] = 0

\* C5: clean_directory on a root that does not exist or is not a directory
\* returns five zeros, deletes nothing and raises nothing, and clean_all
\* goes on with the next configured root.
C5_MissingRoot ==
    /\ [](\A k \in 1..Len(runs) :
             PathOf(runs[k].path) \notin Dirs =>
                 /\ runs[k].result = ZeroResult
                 /\ runs[k].after = runs[k].before)
    /\ [][(At("clean_directory", "check") /\ PathOf(Top.path) \notin Dirs) =>
             /\ Top'.step = "return"
             /\ Top'.result = ZeroResult
             /\ exists' = exists
             /\ pc' = "call"]_vars
    /\ [][(At("clean_directory", "return") /\ PathOf(Top.path) \notin Dirs) =>
             /\ results'[Top.path] = ZeroResult
             /\ exists' = exists
             /\ pc' = "loop"
             /\ idx' = idx + 1]_vars

\* the run went on after a missing root and deleted a file of the next
C5_Witness ==
    /\ pc = "done"
    /\ target_dirs = <<"X", "A">>
    /\ results["X"] = ZeroResult
    /\ results["A"]["deleted_files"] = 1

\* C6: a failure on one entry never aborts the run: clean_all never ends
\* by raising, and when it is over every configured root has been
\* traversed.
C6_NeverAborts ==
    /\ pc # "raised"
    /\ pc = "done" => Len(runs) = Len(target_dirs)

\* C7: in filtered mode, a directory found empty after its subtree was
\* processed and whose removal fails adds one to failed_dirs.
C7_EmptyDirFailure ==
    [][(/\ At("recursive", "prune")
        /\ Children(Top.dir, exists) = {}
        /\ Top.dir \in exists') =>
           Top'.result["failed_dirs"] = Top.result["failed_dirs"] + 1
      ]_vars

\* C8: every regular file a traversal processes adds exactly one to exactly
\* one of deleted_files, failed_files, skipped_files; a returning recursive
\* call adds its counters to its caller's; so when clean_directory returns
\* the three counters sum to the number of files processed: every file
\* below the root in filtered mode, the root's own files in wildcard mode.
C8_OnePerFile ==
    /\ [](\A k \in 1..Len(runs) :
             LET r == runs[k]
                 root == PathOf(r.path)
                 processed ==
                     IF root \notin Dirs THEN {}
                     ELSE IF IsWildcard
                     THEN {f \in TreeFiles \cap r.before : Parent[f] = root}
                     ELSE TreeFiles \cap Subtree(root, r.before)
             IN  r.result["deleted_files"] + r.result["failed_files"]
                     + r.result["skipped_files"] = Cardinality(processed))
    /\ [][AtStep("should") =>
             \/ Top'.step = "unlink" /\ Top'.result = Top.result
             \/ Top'.result = [Top.result EXCEPT !["skipped_files"] = @ + 1]
         ]_vars
    /\ [][AtStep("unlink") =>
             \/ Top'.result = [Top.result EXCEPT !["deleted_files"] = @ + 1]
             \/ Top'.result = [Top.result EXCEPT !["failed_files"] = @ + 1]
         ]_vars
    /\ [][At("recursive", "return") =>
             \A c \in Counters :
                 Top'.result[c] = stack[Len(stack) - 1].result[c]
                                      + Top.result[c]
         ]_vars

\* a filtered run that skipped a file of the root and deleted a file two
\* directories down, and reports both
C8_Witness ==
    /\ ~IsWildcard
    /\ pc = "loop"
    /\ Len(runs) = 1
    /\ {"a1", "f2"} \subseteq runs[1].before
    /\ "a1" \in Logged(log, "skipped")
    /\ "f2" \in Logged(log, "deleted")
    /\ runs[1].result["deleted_files"] = 1
    /\ runs[1].result["skipped_files"] = 1

\* C9 as stated: a second clean_directory on a root that holds no eligible
\* file any more (no file that matches the filter and is older than the
\* cutoff) returns five zeros.
C9_AsStated ==
    \A k \in 1..(Len(runs) - 1) :
        (/\ PathOf(runs[k].path) = Root
         /\ PathOf(runs[k + 1].path) = Root
         /\ \A f \in TreeFiles \cap runs[k].after :
                ~(extension_match(f) /\ meta[f].mtime < cutoff_time))
        => runs[k + 1].result = ZeroResult

\* C9 amended: a second clean_directory on a root that holds no eligible
\* file any more deletes nothing: deleted_files, failed_files and
\* deleted_dirs are zero, skipped_files is the number of files it visits
\* and failed_dirs the number of child directories that wildcard mode again
\* fails to remove.
C9_SecondRun ==
    \A k \in 1..(Len(runs) - 1) :
        (/\ PathOf(runs[k].path) = Root
         /\ PathOf(runs[k + 1].path) = Root
         /\ \A f \in TreeFiles \cap runs[k].after :
                ~(/\ extension_match(f)
                  /\ <<f, "stat">> \notin faults
                  /\ meta[f].mtime < cutoff_time))
        => LET r == runs[k + 1].result
               left == runs[k].after
           IN  /\ r["deleted_files"] = 0
               /\ r["failed_files"] = 0
               /\ r["deleted_dirs"] = 0
               /\ runs[k + 1].after = left
               /\ r["skipped_files"] =
                      IF IsWildcard
                      THEN Cardinality({f \in TreeFiles \cap left :
                                           Parent[f] = Root})
                      ELSE Cardinality(TreeFiles \cap left)
               /\ r["failed_dirs"] =
                      IF IsWildcard
                      THEN Cardinality({d \in TreeDirs \cap left :
                                           Parent[d] = Root})
                      ELSE 0

\* a first run deleted a file and left one that is not eligible; the second
\* run on the same root skipped that file again
C9_Witness ==
    /\ Len(runs) = 2
    /\ PathOf(runs[1].path) = Root
    /\ PathOf(runs[2].path) = Root
    /\ runs[1].result["deleted_files"] = 1
    /\ runs[1].result["failed_files"] = 0
    /\ runs[2].result["skipped_files"] = 1
    /\ \A f \in TreeFiles \cap runs[1].after : ~_should_delete_file(f)

RECURSIVE SumRuns(_, _)
SumRuns(k, c) == IF k = 0 THEN 0 ELSE runs[k].result[c] + SumRuns(k - 1, c)

C11_Totals ==
    pc = "summary" =>
        /\ Len(runs) = Len(target_dirs)
        /\ \A c \in Counters : totals[c] = SumRuns(Len(runs), c)

\* the files directly in the root
RootFiles == {f \in TreeFiles : Parent[f] = Root}

\* C12 as stated: in wildcard mode a direct-child file of the root that is
\* not strictly older than the cutoff is not deleted and is counted in
\* skipped_files, and one that is older than the cutoff is deleted whatever
\* its extension.  (A file whose modification time cannot be read counts as
\* not older.)
C12_AsStated ==
    \A k \in 1..Len(runs) :
        (IsWildcard /\ runs[k].path = Root) =>
            \A f \in RootFiles \cap runs[k].before :
                IF meta[f].mtime < cutoff_time /\ <<f, "stat">> \notin faults
                THEN f \notin runs[k].after
                ELSE /\ f \in runs[k].after
                     /\ runs[k].result["skipped_files"] >= 1

\* C12 amended: in wildcard mode the age policy gates the direct-child files
\* of the root.  A file that is not strictly older than the cutoff, or whose
\* modification time cannot be read, stays and is counted in skipped_files;
\* a file older than the cutoff goes to _delete_file whatever its extension:
\* it is gone and counted in deleted_files, unless the unlink fails, and
\* then it stays and is counted in failed_files.
C12_WildcardAge ==
    \A k \in 1..Len(runs) :
        (IsWildcard /\ runs[k].path = Root) =>
            \A f \in RootFiles \cap runs[k].before :
                LET r == runs[k].result
                    old == meta[f].mtime < cutoff_time
                            /\ <<f, "stat">> \notin faults
                IN  /\ ~old =>
                          /\ f \in runs[k].after
                          /\ r["skipped_files"] = 1
                          /\ r["deleted_files"] = 0 /\ r["failed_files"] = 0
                    /\ (old /\ <<f, "unlink">> \notin faults) =>
                          /\ f \notin runs[k].after
                          /\ r["deleted_files"] = 1
                          /\ r["skipped_files"] = 0 /\ r["failed_files"] = 0
                    /\ (old /\ <<f, "unlink">> \in faults) =>
                          /\ f \in runs[k].after
                          /\ r["failed_files"] = 1
                          /\ r["skipped_files"] = 0 /\ r["deleted_files"] = 0

\* a wildcard run deleted an old .txt file of the root and kept nothing
\* else of it
C12_Witness ==
    /\ IsWildcard
    /\ Len(runs) = 1
    /\ runs[1].path = Root
    /\ "a1" \in runs[1].before
    /\ meta["a1"].name = ATxt
    /\ meta["a1"].mtime < cutoff_time
    /\ "a1" \notin runs[1].after
    /\ runs[1].result["deleted_files"] = 1

\* the entry in hand is a file that another process has removed
Vanished ==
    /\ Running
    /\ Top.step \in {"type", "should", "unlink"}
    /\ Top.cur \in TreeFiles
    /\ Top.cur \notin exists

\* C13 as stated: whenever another process removes a listed file, before
\* its type check, before its age check or between its age check and its
\* unlink, the traversal goes on and the file adds nothing or one to
\* skipped_files; failed_files is never incremented for it.
C13_AsStated ==
    /\ pc # "raised"
    /\ \A k \in 1..Len(stack) : stack[k].result["failed_files"] = 0
    /\ \A k \in 1..Len(runs) : runs[k].result["failed_files"] = 0

\* C13 amended: a listed file removed by another process is never fatal.
\* Removed before its type check it adds nothing; removed before its age
\* check it adds one to skipped_files; removed between its age check and
\* its unlink, the unlink fails and it adds one to failed_files.
C13_VanishedFile ==
    [][(Vanished /\ stack' # stack) =>
          /\ pc' = "call"
          /\ Len(stack') = Len(stack)
          /\ Top'.step = "loop"
          /\ exists' = exists
          /\ Top'.result =
                 CASE Top.step = "type" -> Top.result
                   [] Top.step = "should" -> Incr(Top.result, "skipped_files")
                   [] Top.step = "unlink" -> Incr(Top.result, "failed_files")
      ]_vars

\* a file that passed the age check was removed by another process before
\* its unlink, and the finished traversal counted one failed file
C13_Witness ==
    /\ external = 1
    /\ pc = "loop"
    /\ Len(runs) = 1
    /\ Logged(log, "failed") # {}
    /\ runs[1].result["failed_files"] = 1
    /\ runs[1].result["deleted_files"] = 0

\* C14: _delete_file and _delete_directory do not raise when the OS call
\* fails, they return false: the traversal goes on, a file that is still
\* there after its unlink adds exactly one to failed_files, a directory that
\* is still there after its rmtree in wildcard mode adds exactly one to
\* failed_dirs, and no other counter changes.
C14_FailedDeletion ==
    [][/\ (AtStep("unlink") \/ AtStep("rmtree")) =>
              /\ pc' = "call"
              /\ Len(stack') = Len(stack)
              /\ Top'.step = "loop"
       /\ (AtStep("unlink") /\ Top.cur \in exists') =>
              Top'.result = [Top.result EXCEPT !["failed_files"] = @ + 1]
       /\ (AtStep("rmtree") /\ Top.cur \in exists') =>
              Top'.result = [Top.result EXCEPT !["failed_dirs"] = @ + 1]
      ]_vars

\* a wildcard run could not remove the directory d1 and counted it, and
\* nothing else, as failed
C14_Witness ==
    /\ IsWildcard
    /\ pc = "loop"
    /\ Len(runs) = 1
    /\ "d1" \in runs[1].before
    /\ "d1" \in runs[1].after
    /\ "a1" \notin runs[1].before
    /\ runs[1].result = [ZeroResult EXCEPT !["failed_dirs"] = 1]

\* the position of the event ev of node n in the log, 0 when there is none
Position(n, ev) ==
    IF \E j \in 1..Len(log) : log[j] = [node |-> n, ev |-> ev]
    THEN CHOOSE j \in 1..Len(log) : log[j] = [node |-> n, ev |-> ev]
    ELSE 0

\* the chain d1/d2/f2 is there and f2 is a file the policy selects
ChainEligible(ex) ==
    /\ {"d1", "d2", "f2"} \subseteq ex
    /\ InSeq(Extension(meta["f2"].name), target_extensions)
    /\ meta["f2"].mtime < cutoff_time
    /\ <<"f2", "stat">> \notin faults

C16_EveryEntryOnce ==
    [][/\ (Running /\ pc' # "call") =>
              \A k \in 1..Len(stack) :
                  /\ stack[k].items = {}
                  /\ stack[k].step # "wait"
       /\ \A i, j \in 1..Len(log') :
              log'[i].node = log'[j].node => i = j
      ]_vars

\* C17: app_start_time is set once, at construction, and no step of
\* clean_all, clean_directory or the recursive traversal changes it or
\* target_dirs, target_extensions or file_cleanup_hour: every age decision
\* of a run is made against the same cutoff.
C17_Frame ==
    [][/\ app_start_time' = app_start_time
       /\ target_dirs' = target_dirs
       /\ target_extensions' = target_extensions
       /\ file_cleanup_hour' = file_cleanup_hour
       /\ cutoff_time' = cutoff_time
      ]_vars

\* a finished traversal that made the age decision for two files, one
\* skipped and one deleted, with the clock value of construction
C17_Witness ==
    /\ pc = "loop"
    /\ Len(runs) = 1
    /\ ~IsWildcard
    /\ Logged(log, "skipped") # {}
    /\ Logged(log, "deleted") # {}
    /\ app_start_time = StartTime
    /\ cutoff_time = StartTime - CleanupHour

\* C18: after the settings are loaded file_cleanup_hour is a positive
\* integer: a missing, empty or non-numeric value has been replaced by 24,
\* and no configured value leaves a cutoff of zero or less in effect.
C18_Positive ==
    pc = "loaded" =>
        /\ file_cleanup_hour \in Nat \ {0}
        /\ (~raw.hour.present \/ ~ParseInt(raw.hour.value).ok) =>
               file_cleanup_hour = 24

\* the extension of each file name, written out by hand: the final suffix
\* only, in lower case, without its dot, empty when the name has no suffix
ExpectedExtension(name) ==
    CASE name = <<"a", ".", "p", "d", "f">> -> <<"p", "d", "f">>
      [] name = <<"A", ".", "P", "D", "F">> -> <<"p", "d", "f">>
      [] name = <<"a", ".", "b", ".", "p", "d", "f">> -> <<"p", "d", "f">>
      [] name = <<"a", ".", "t", "x", "t">> -> <<"t", "x", "t">>
      [] name = <<"a">> -> <<>>
      [] name = <<".", "p", "d", "f">> -> <<>>

RECURSIVE Ancestors(_)
Ancestors(n) ==
    IF n \notin DOMAIN Parent THEN {}
    ELSE {Parent[n]} \cup Ancestors(Parent[n])

\* the should-delete decision of file f is false: its extension is not in
\* the filter, or its modification time is not strictly older than the
\* cutoff or cannot be read
KeptByPolicy(f) ==
    \/ ~InSeq(ExpectedExtension(meta[f].name), target_extensions)
    \/ ~(meta[f].mtime < cutoff_time)
    \/ <<f, "stat">> \in faults

\* C20: in filtered mode, with nobody else changing the tree, a file at any
\* depth whose should-delete decision is false is never deleted: it exists
\* at every step of clean_directory and when it returns, and so does every
\* directory on the path from the root to it.
C20_KeptFiles ==
    (~IsWildcard /\ pc \in {"call", "loop"}) =>
        \A f \in TreeFiles \cap before :
            KeptByPolicy(f) =>
                /\ f \in exists
                /\ Ancestors(f) \subseteq exists

\* a filtered run deleted the old a.pdf of the root and returned with the
\* old a.txt two levels down, and both directories above it, still there
C20_Witness ==
    /\ ~IsWildcard
    /\ pc = "loop"
    /\ Len(runs) = 1
    /\ runs[1].path = Root
    /\ {"a1", "d1", "d2", "f2"} \subseteq runs[1].before
    /\ meta["f2"].name = ATxt
    /\ meta["f2"].mtime < cutoff_time
    /\ runs[1].after = {Root, "F", "d1", "d2", "f2"}
    /\ runs[1].result["deleted_files"] = 1
    /\ runs[1].result["skipped_files"] = 1

\* the directories strictly below directory d in the file system ex
DirsBelow(d, ex) == (Subtree(d, ex) \ {d}) \cap Dirs

\* C21: clean_directory never removes the configured root itself, in
\* wildcard mode or in filtered mode: a root that is an existing directory
\* exists at every step of the run and when it returns, even when the run
\* has emptied it, and it is never counted in deleted_dirs or failed_dirs:
\* no outcome is recorded for it and the two counters together do not
\* exceed the number of directories below it.
C21_RootStays ==
    /\ Running =>
          LET d == stack[1].dir
          IN  d \in before \cap Dirs =>
                  /\ d \in exists
                  /\ \A j \in 1..Len(log) : log[j].node # d
    /\ (pc = "loop" /\ runs # <<>>) =>
          LET r == runs[Len(runs)]
              d == PathOf(r.path)
          IN  d \in r.before \cap Dirs =>
                  /\ d \in r.after
                  /\ \A j \in 1..Len(log) : log[j].node # d
                  /\ r.result["deleted_dirs"] + r.result["failed_dirs"]
                         <= Cardinality(DirsBelow(d, r.before))

\* a filtered run on the root A/d1 deleted the file two levels down and
\* the directory d2, left d1 empty and in place, and counted one directory
C21_Witness ==
    /\ ~IsWildcard
    /\ pc = "loop"
    /\ Len(runs) = 1
    /\ runs[1].path = "A/d1"
    /\ {"d1", "d2", "f2"} \subseteq runs[1].before
    /\ "d1" \in runs[1].after
    /\ Children("d1", runs[1].after) = {}
    /\ runs[1].result["deleted_dirs"] = 1
    /\ runs[1].result["failed_dirs"] = 0

====
